---- MODULE Spec2Model ----
(***************************************************************************)
(* Model of src/reproduce.py: convert_to_solidity, the converter of a      *)
(* fuzzer call sequence into the body of a Solidity replay test.           *)
(*                                                                         *)
(* Text is a sequence of one-character strings, so the two regular         *)
(* expressions, str.strip and str.split are computed character by          *)
(* character, as the interpreter computes them.                            *)
(***************************************************************************)
EXTENDS Integers, Sequences, FiniteSets, TLC

VARIABLES trace, call_sequence, pc, lines, last_index, i, solidity_code

vars == <<trace, call_sequence, pc, lines, last_index, i, solidity_code>>

(***************************************************************************)
(* Bounds of the model.                                                    *)
(***************************************************************************)
\* the longest call sequence, in lines, of specification Spec
MaxLines == 3
\* the longest digit string of a delay, of specification SpecLine
MaxDigits == 2
\* the longest qualifier (the identifier before the dot), of SpecLine
MaxQualLen == 2

(***************************************************************************)
(* Literals of the source.                                                 *)
(***************************************************************************)
HEADER == <<"f","u","n","c","t","i","o","n"," ","t","e","s","t","_","r","e","p","l","a","y","(",")"," ","p","u","b","l","i","c"," ","{","\n">>
FOOTER == <<"}","\n">>
PRANK_OPEN == <<" "," "," "," ","v","m",".","p","r","a","n","k","(">>
WARP_OPEN == <<" "," "," "," ","v","m",".","w","a","r","p","(","b","l","o","c","k",".","t","i","m","e","s","t","a","m","p"," ","+"," ">>
ROLL_OPEN == <<" "," "," "," ","v","m",".","r","o","l","l","(","b","l","o","c","k",".","n","u","m","b","e","r"," ","+"," ">>
STMT_CLOSE == <<")",";","\n">>
TRY_OPEN == <<" "," "," "," ","t","r","y"," ","t","h","i","s",".">>
TRY_CLOSE == <<" ","{","}"," ","c","a","t","c","h"," ","{","}","\n">>
INDENT == <<" "," "," "," ">>
CALL_CLOSE == <<";","\n">>
NEWLINE == <<"\n">>
FUZZ_PREFIX == <<"F","u","z","z","E","c","h","i","d","n","a",".">>
FROM_LIT == <<" ","f","r","o","m",":"," ">>
HEX_PREFIX == <<"0","x">>
TIME_LIT == <<" ","T","i","m","e"," ","d","e","l","a","y",":"," ">>
SECONDS_LIT == <<" ","s","e","c","o","n","d","s">>
BLOCK_LIT == <<" ","B","l","o","c","k"," ","d","e","l","a","y",":"," ">>
WAIT_LIT == <<"*","w","a","i","t","*">>
\* {40}: the number of hex digits of an address
AddrHexLen == 40

\* a group that did not take part in the match (Python's None)
None == <<"None">>

(***************************************************************************)
(* Character classes of the patterns (ASCII).                              *)
(***************************************************************************)
Digits == {"0","1","2","3","4","5","6","7","8","9"}
HexDigits == Digits \cup {"a","b","c","d","e","f","A","B","C","D","E","F"}
Letters ==
  {"a","b","c","d","e","f","g","h","i","j","k","l","m","n","o","p","q","r","s","t","u","v","w","x","y","z",
   "A","B","C","D","E","F","G","H","I","J","K","L","M","N","O","P","Q","R","S","T","U","V","W","X","Y","Z"}
WordChars == Letters \cup Digits \cup {"_"}
Whitespace == {" ", "\t", "\n", "\r", "\f"}

(***************************************************************************)
(* str.strip() and str.split('\n').                                        *)
(***************************************************************************)
Min(S) == CHOOSE x \in S : \A y \in S : x <= y
Max(S) == CHOOSE x \in S : \A y \in S : y <= x

\* the k-th smallest element of a set of numbers
Nth(S, k) == CHOOSE p \in S : Cardinality({ q \in S : q < p }) = k - 1

\* s.strip(): s from its first to its last character that is not whitespace
Strip(s) ==
  LET ns == { k \in 1..Len(s) : s[k] \notin Whitespace }
  IN  IF ns = {} THEN <<>> ELSE SubSeq(s, Min(ns), Max(ns))

\* s.split('\n'): the texts between the newlines, one more than the newlines
Split(s) ==
  LET nl == { k \in 1..Len(s) : s[k] = "\n" }
      n == Cardinality(nl)
  IN  [ j \in 1..(n + 1) |->
          SubSeq(s, IF j = 1 THEN 1 ELSE Nth(nl, j - 1) + 1,
                    IF j = n + 1 THEN Len(s) ELSE Nth(nl, j) - 1) ]

(***************************************************************************)
(* The pieces of the regular expressions.  A position is an index into the *)
(* line; a piece matched at p yields the position after it, 0 on failure.  *)
(***************************************************************************)
\* a literal at p
MatchLit(s, p, lit) ==
  IF p + Len(lit) - 1 <= Len(s) /\ SubSeq(s, p, p + Len(lit) - 1) = lit
  THEN p + Len(lit) ELSE 0

\* the end of the longest run of characters of class C from p (greedy * / +)
RECURSIVE RunEnd(_, _, _)
RunEnd(s, p, C) ==
  IF p <= Len(s) /\ s[p] \in C THEN RunEnd(s, p + 1, C) ELSE p

\* the end of the longest run of characters other than ")" from p: [^\)]*
RECURSIVE ArgsEnd(_, _)
ArgsEnd(s, p) ==
  IF p <= Len(s) /\ s[p] # ")" THEN ArgsEnd(s, p + 1) ELSE p

\* (\w+\([^\)]*\)) at p.  Each greedy run is followed by a character outside
\* its class, so no shorter run can make the match succeed.
CallExprEnd(s, p) ==
  LET w == RunEnd(s, p, WordChars)
  IN  IF w = p \/ w > Len(s) \/ s[w] # "(" THEN 0
      ELSE LET a == ArgsEnd(s, w + 1)
           IN  IF a > Len(s) THEN 0 ELSE a + 1

\* (?: from: (0x[0-9a-fA-F]{40}))? at p: <<position after, group>>
FromGroup(s, p) ==
  LET q == MatchLit(s, p, FROM_LIT)
      x == IF q = 0 THEN 0 ELSE MatchLit(s, q, HEX_PREFIX)
      h == IF x = 0 THEN 0 ELSE RunEnd(s, x, HexDigits)
  IN  IF x # 0 /\ h - x >= AddrHexLen
      THEN <<x + AddrHexLen, SubSeq(s, q, x + AddrHexLen - 1)>>
      ELSE <<p, None>>

\* (?: Time delay: (\d+) seconds)? at p: <<position after, group>>
TimeGroup(s, p) ==
  LET q == MatchLit(s, p, TIME_LIT)
      d == IF q = 0 THEN 0 ELSE RunEnd(s, q, Digits)
      e == IF q = 0 \/ d = q THEN 0 ELSE MatchLit(s, d, SECONDS_LIT)
  IN  IF e # 0 THEN <<e, SubSeq(s, q, d - 1)>> ELSE <<p, None>>

\* (?: Block delay: (\d+))? at p: <<position after, group>>
BlockGroup(s, p) ==
  LET q == MatchLit(s, p, BLOCK_LIT)
      d == IF q = 0 THEN 0 ELSE RunEnd(s, q, Digits)
  IN  IF q # 0 /\ d > q THEN <<d, SubSeq(s, q, d - 1)>> ELSE <<p, None>>

\* where group 1 of call_pattern starts in a match that starts at p, 0 when
\* the pattern does not match at p: the optional prefix is tried first
CallExprStart(s, p) ==
  LET f == MatchLit(s, p, FUZZ_PREFIX)
  IN  IF f # 0 /\ CallExprEnd(s, f) # 0 THEN f
      ELSE IF CallExprEnd(s, p) # 0 THEN p ELSE 0

\* the leftmost position from p at which call_pattern matches, 0 if none
RECURSIVE CallSearchFrom(_, _)
CallSearchFrom(s, p) ==
  IF p > Len(s) THEN 0
  ELSE IF CallExprStart(s, p) # 0 THEN p ELSE CallSearchFrom(s, p + 1)

\* call_pattern with the prefix inside group 1: ((?:FuzzEchidna\.)?\w+\(...\))
call_pattern_search_whole(s) ==
  LET m == CallSearchFrom(s, 1)
  IN  IF m = 0 THEN None
      ELSE LET e == CallExprEnd(s, CallExprStart(s, m))
               f == FromGroup(s, e)
               t == TimeGroup(s, f[1])
               b == BlockGroup(s, t[1])
           IN  <<SubSeq(s, m, e - 1), f[2], t[2], b[2]>>

\* call_pattern anchored at the end of the line: a match must use all of it
call_pattern_search_anchored(s) ==
  LET m == CallSearchFrom(s, 1)
  IN  IF m = 0 THEN None
      ELSE LET c == CallExprStart(s, m)
               e == CallExprEnd(s, c)
               f == FromGroup(s, e)
               t == TimeGroup(s, f[1])
               b == BlockGroup(s, t[1])
           IN  IF b[1] = Len(s) + 1
               THEN <<SubSeq(s, c, e - 1), f[2], t[2], b[2]>>
               ELSE None

\* call_pattern.search(line): None, or the groups
\* <<call, from_addr, time_delay, block_delay>>
call_pattern_search(s) ==
  LET m == CallSearchFrom(s, 1)
  IN  IF m = 0 THEN None
      ELSE LET c == CallExprStart(s, m)
               e == CallExprEnd(s, c)
               f == FromGroup(s, e)
               t == TimeGroup(s, f[1])
               b == BlockGroup(s, t[1])
           IN  <<SubSeq(s, c, e - 1), f[2], t[2], b[2]>>

\* the leftmost position from p at which wait_pattern matches, 0 if none
RECURSIVE WaitSearchFrom(_, _)
WaitSearchFrom(s, p) ==
  IF p > Len(s) THEN 0
  ELSE IF MatchLit(s, p, WAIT_LIT) # 0 THEN p ELSE WaitSearchFrom(s, p + 1)

\* wait_pattern.search(line): None, or the groups <<time_delay, block_delay>>
wait_pattern_search(s) ==
  LET m == WaitSearchFrom(s, 1)
  IN  IF m = 0 THEN None
      ELSE LET t == TimeGroup(s, m + Len(WAIT_LIT))
               b == BlockGroup(s, t[1])
           IN  <<t[2], b[2]>>

(***************************************************************************)
(* Emission.                                                               *)
(***************************************************************************)
\* the truth value of a group read as a number: zero is false too
TruthyNonZero(g) == g # None /\ g # <<>> /\ \E k \in 1..Len(g) : g[k] # "0"

\* the truth value of a group: None and the empty string are false
Truthy(g) == g # None /\ g # <<>>

\* the branches tested in the other order
ClassifyWaitFirst(line) ==
  IF wait_pattern_search(line) # None THEN "wait"
  ELSE IF call_pattern_search(line) # None THEN "call"
  ELSE "none"

\* the branch of the loop body a line takes
Classify(line) ==
  IF call_pattern_search(line) # None THEN "call"
  ELSE IF wait_pattern_search(line) # None THEN "wait"
  ELSE "none"

PrankStmt(from_addr) ==
  IF Truthy(from_addr) THEN PRANK_OPEN \o from_addr \o STMT_CLOSE ELSE <<>>

WarpStmt(time_delay) ==
  IF Truthy(time_delay) THEN WARP_OPEN \o time_delay \o STMT_CLOSE ELSE <<>>

RollStmt(block_delay) ==
  IF Truthy(block_delay) THEN ROLL_OPEN \o block_delay \o STMT_CLOSE ELSE <<>>

\* the comparison off by one
IsGuardedOffByOne(idx, last) == idx < last - 1

\* whether the call of line idx is wrapped in try/catch
IsGuarded(idx, last) == idx < last

CallStmt(call, idx, last) ==
  IF IsGuarded(idx, last) THEN TRY_OPEN \o call \o TRY_CLOSE
  ELSE INDENT \o call \o CALL_CLOSE

\* the roll statement before the warp statement
CallBlockRollFirst(g, idx, last) ==
  PrankStmt(g[2]) \o RollStmt(g[4]) \o WarpStmt(g[3])
    \o CallStmt(g[1], idx, last) \o NEWLINE

\* what the call branch appends for groups g
CallBlock(g, idx, last) ==
  PrankStmt(g[2]) \o WarpStmt(g[3]) \o RollStmt(g[4])
    \o CallStmt(g[1], idx, last) \o NEWLINE

\* the roll statement before the warp statement
WaitBlockRollFirst(g) == RollStmt(g[2]) \o WarpStmt(g[1]) \o NEWLINE

\* the wait branch without its blank line
WaitBlockNoBlank(g) == WarpStmt(g[1]) \o RollStmt(g[2])

\* what the wait branch appends for groups g
WaitBlock(g) == WarpStmt(g[1]) \o RollStmt(g[2]) \o NEWLINE

\* what one iteration of the loop appends
EmitLine(line, idx, last) ==
  CASE Classify(line) = "call" -> CallBlock(call_pattern_search(line), idx, last)
    [] Classify(line) = "wait" -> WaitBlock(wait_pattern_search(line))
    [] OTHER -> <<>>

RECURSIVE EmitFrom(_, _)
EmitFrom(ls, idx) ==
  IF idx > Len(ls) - 1 THEN <<>>
  ELSE EmitLine(ls[idx + 1], idx, Len(ls) - 1) \o EmitFrom(ls, idx + 1)

\* the function as a whole
convert_to_solidity(cs) == HEADER \o EmitFrom(Split(Strip(cs)), 0) \o FOOTER

(***************************************************************************)
(* Inputs.  A call sequence is rendered from a trace: a sequence of lines, *)
(* each the concatenation of a head (a call expression, the wait marker,   *)
(* other text) and of a from, a time delay and a block delay suffix.  Each *)
(* piece records how it was written (tag) and the value it carries (val),  *)
(* so that the output can be compared with what was written.               *)
(***************************************************************************)
Piece(tag, text, val) == [tag |-> tag, text |-> text, val |-> val]

Absent == Piece("none", <<>>, None)

HexCycle == <<"0","a","F","9">>
HexRun(n) == [k \in 1..n |-> HexCycle[(k % 4) + 1]]

FromOptions ==
  { Absent,
    Piece("ok", FROM_LIT \o HEX_PREFIX \o HexRun(AddrHexLen), HEX_PREFIX \o HexRun(AddrHexLen)),
    Piece("bad", FROM_LIT \o HEX_PREFIX \o HexRun(AddrHexLen - 1), None),
    Piece("bad", FROM_LIT \o HexRun(AddrHexLen), None),
    Piece("long", FROM_LIT \o HEX_PREFIX \o HexRun(AddrHexLen + 1), HEX_PREFIX \o HexRun(AddrHexLen)) }

DigitAlphabet == {"0", "5"}
DigitStrings == UNION { [1..n -> DigitAlphabet] : n \in 1..MaxDigits }

TimeOptions ==
  { Absent,
    Piece("bad", TIME_LIT \o <<"x">> \o SECONDS_LIT, None),
    Piece("bad", TIME_LIT \o <<"5">>, None) }
  \cup { Piece("ok", TIME_LIT \o d \o SECONDS_LIT, d) : d \in DigitStrings }

BlockOptions ==
  { Absent,
    Piece("bad", BLOCK_LIT \o <<"x">>, None),
    Piece("partial", BLOCK_LIT \o <<"5","x">>, <<"5">>) }
  \cup { Piece("ok", BLOCK_LIT \o d, d) : d \in DigitStrings }

\* heads: val is the call expression the head holds, None when it holds none
CALL_F == <<"f","(","a",")">>
CALL_G == <<"g","(",")">>
CALL_POOL == <<"p","o","o","l","_","d","e","p","o","s","i","t","(","1",",","2",")">>
CallExprs == {CALL_F, CALL_G, CALL_POOL}

QualAlphabet == {"Q", "_"}
Qualifiers ==
  UNION { [1..n -> QualAlphabet] : n \in 1..MaxQualLen }
    \cup { SubSeq(FUZZ_PREFIX, 1, Len(FUZZ_PREFIX) - 1) }

PlainHead(c) == Piece("call", c, c)
QualHead(q, c) == Piece("qualified", q \o <<".">> \o c, c)
IndentHead(c) == Piece("call", INDENT \o c, c)
WaitHead == Piece("wait", WAIT_LIT, None)
\* the wait marker with a delay of its own, then a call expression
BothHead ==
  Piece("both", WAIT_LIT \o TIME_LIT \o <<"9">> \o SECONDS_LIT \o <<" ">> \o CALL_F, CALL_F)
JunkHead == Piece("junk", <<"#"," ","n","o","t","e">>, None)
BlankHead == Piece("blank", <<>>, None)
SpacesHead == Piece("blank", <<" "," ">>, None)

Line(h, f, t, b) == [head |-> h, from |-> f, time |-> t, block |-> b]
Bare(h) == Line(h, Absent, Absent, Absent)

LineText(l) == l.head.text \o l.from.text \o l.time.text \o l.block.text

RECURSIVE Render(_)
Render(tr) ==
  IF Len(tr) = 0 THEN <<>>
  ELSE IF Len(tr) = 1 THEN LineText(tr[1])
  ELSE LineText(tr[1]) \o NEWLINE \o Render(Tail(tr))

\* the lines of specification Spec
SimpleLines ==
  { Bare(PlainHead(CALL_F)),
    Line(QualHead(<<"Q">>, CALL_POOL), Absent,
         Piece("ok", TIME_LIT \o <<"5">> \o SECONDS_LIT, <<"5">>),
         Piece("ok", BLOCK_LIT \o <<"0">>, <<"0">>)),
    Line(WaitHead, Absent,
         Piece("ok", TIME_LIT \o <<"5">> \o SECONDS_LIT, <<"5">>),
         Piece("ok", BLOCK_LIT \o <<"0">>, <<"0">>)),
    Bare(JunkHead),
    Bare(BlankHead),
    Bare(SpacesHead) }

SimpleTraces == UNION { [1..n -> SimpleLines] : n \in 0..MaxLines }

\* the lines of specification SpecLine: every combination of suffixes on a
\* few heads, and every head with a few suffixes
\* a few delays of each kind, and the pairs of a time and a block delay in
\* which one of the two is any delay and the other one of the few
FewTimes == { x \in TimeOptions : x.tag # "ok" \/ x.val = <<"0">> }
FewBlocks == { x \in BlockOptions : x.tag # "ok" \/ x.val = <<"0">> }
DelayPairs == (TimeOptions \X FewBlocks) \cup (FewTimes \X BlockOptions)

WellFormed == { x \in FromOptions : x.tag \in {"none", "ok"} }

SuffixFocus ==
  { Line(h, f, d[1], d[2]) : h \in {PlainHead(CALL_F), BothHead},
                             f \in FromOptions, d \in DelayPairs }
    \cup { Line(h, f, d[1], d[2]) : h \in {WaitHead, JunkHead},
                                    f \in WellFormed, d \in DelayPairs }

HeadFocus ==
  { Line(h, f, Absent, b) :
      h \in { PlainHead(c) : c \in CallExprs }
              \cup { QualHead(q, c) : q \in Qualifiers, c \in CallExprs }
              \cup { IndentHead(CALL_F) },
      f \in WellFormed,
      b \in { x \in BlockOptions : x.tag = "none" \/ (x.tag = "ok" /\ x.val = <<"5">>) } }

FocusLines == SuffixFocus \cup HeadFocus

\* the focus line alone, followed by one more call, or after one more call
OtherCall == Bare(PlainHead(CALL_G))
FocusTraces ==
  { <<l>> : l \in FocusLines }
    \cup { <<l, OtherCall>> : l \in FocusLines }
    \cup { <<OtherCall, l>> : l \in FocusLines }

(***************************************************************************)
(* The state machine: one run of convert_to_solidity on call_sequence.     *)
(***************************************************************************)
InitOn(Traces) ==
  /\ trace \in Traces
  /\ call_sequence = Render(trace)
  /\ pc = "start"
  /\ lines = <<>>
  /\ last_index = 0
  /\ i = 0
  /\ solidity_code = <<>>

Init == InitOn(SimpleTraces)

InitLine == InitOn(FocusTraces)

\* the conditions under which each step of the function runs
CanStart == pc = "start"
AtLine == pc = "loop" /\ i <= last_index
CanCallLine == AtLine /\ Classify(lines[i + 1]) = "call"
CanWaitLine == AtLine /\ Classify(lines[i + 1]) = "wait"
CanSkipLine == AtLine /\ Classify(lines[i + 1]) = "none"
CanFinish == pc = "loop" /\ i > last_index
CanStep == CanStart \/ CanCallLine \/ CanWaitLine \/ CanSkipLine \/ CanFinish

\* lines 8-11
Start ==
  /\ CanStart
  /\ solidity_code' = HEADER
  /\ lines' = Split(Strip(call_sequence))
  /\ last_index' = Len(lines') - 1
  /\ i' = 0
  /\ pc' = "loop"
  /\ UNCHANGED <<trace, call_sequence>>

\* lines 13-36: an iteration on a line call_pattern matches
CallLine ==
  /\ CanCallLine
  /\ solidity_code' = solidity_code
        \o CallBlock(call_pattern_search(lines[i + 1]), i, last_index)
  /\ i' = i + 1
  /\ UNCHANGED <<trace, call_sequence, pc, lines, last_index>>

\* lines 13-15, 37-47: an iteration on a line only wait_pattern matches
WaitLine ==
  /\ CanWaitLine
  /\ solidity_code' = solidity_code \o WaitBlock(wait_pattern_search(lines[i + 1]))
  /\ i' = i + 1
  /\ UNCHANGED <<trace, call_sequence, pc, lines, last_index>>

\* lines 13-16, 37: an iteration on a line neither pattern matches
SkipLine ==
  /\ CanSkipLine
  /\ i' = i + 1
  /\ UNCHANGED <<trace, call_sequence, pc, lines, last_index, solidity_code>>

\* lines 49-51
Finish ==
  /\ CanFinish
  /\ solidity_code' = solidity_code \o FOOTER
  /\ pc' = "done"
  /\ UNCHANGED <<trace, call_sequence, lines, last_index, i>>

Next == Start \/ CallLine \/ WaitLine \/ SkipLine \/ Finish

Spec == Init /\ [][Next]_vars

SpecLine == InitLine /\ [][Next]_vars

TypeOK ==
  /\ pc \in {"start", "loop", "done"}
  /\ i \in 0..(last_index + 1)

(***************************************************************************)
(* Reading the output back: its lines, its statement blocks, and the       *)
(* statement shapes of the output format.                                  *)
(***************************************************************************)
SHAPE_HEADER == <<"f","u","n","c","t","i","o","n"," ","t","e","s","t","_","r","e","p","l","a","y","(",")"," ","p","u","b","l","i","c"," ","{">>
SHAPE_CLOSE == <<"}">>
SHAPE_PRANK == <<" "," "," "," ","v","m",".","p","r","a","n","k","(">>
SHAPE_WARP == <<" "," "," "," ","v","m",".","w","a","r","p","(","b","l","o","c","k",".","t","i","m","e","s","t","a","m","p"," ","+"," ">>
SHAPE_ROLL == <<" "," "," "," ","v","m",".","r","o","l","l","(","b","l","o","c","k",".","n","u","m","b","e","r"," ","+"," ">>
SHAPE_END == <<")",";">>
SHAPE_TRY == <<" "," "," "," ","t","r","y"," ","t","h","i","s",".">>
SHAPE_CATCH == <<" ","{","}"," ","c","a","t","c","h"," ","{","}">>
SHAPE_INDENT == <<" "," "," "," ">>
SHAPE_SEMI == <<";">>
SHAPE_VM == <<" "," "," "," ","v","m",".">>
EMPTY_FUNCTION == <<"f","u","n","c","t","i","o","n"," ","t","e","s","t","_","r","e","p","l","a","y","(",")"," ","p","u","b","l","i","c"," ","{","\n","}","\n">>

Prank(a) == SHAPE_PRANK \o a \o SHAPE_END
Warp(n) == SHAPE_WARP \o n \o SHAPE_END
Roll(m) == SHAPE_ROLL \o m \o SHAPE_END
Guarded(c) == SHAPE_TRY \o c \o SHAPE_CATCH
Direct(c) == SHAPE_INDENT \o c \o SHAPE_SEMI

StartsWith(s, pre) == Len(s) >= Len(pre) /\ SubSeq(s, 1, Len(pre)) = pre
EndsWith(s, suf) == Len(s) >= Len(suf) /\ SubSeq(s, Len(s) - Len(suf) + 1, Len(s)) = suf

IsVmStmt(s) == StartsWith(s, SHAPE_VM)
IsGuardedStmt(s) == StartsWith(s, SHAPE_TRY) /\ EndsWith(s, SHAPE_CATCH)
IsDirectStmt(s) == StartsWith(s, SHAPE_INDENT) /\ EndsWith(s, SHAPE_SEMI) /\ ~IsVmStmt(s)
IsCallStmt(s) == IsGuardedStmt(s) \/ IsDirectStmt(s)

\* the lines of a text, each ended by a newline
TextLines(t) ==
  LET nl == { k \in 1..Len(t) : t[k] = "\n" }
  IN  [ j \in 1..Cardinality(nl) |->
          SubSeq(t, IF j = 1 THEN 1 ELSE Nth(nl, j - 1) + 1, Nth(nl, j) - 1) ]

OutLines == TextLines(solidity_code)

\* the lines between the header line and the closing line
Body == SubSeq(OutLines, 2, Len(OutLines) - 1)

\* the blocks of a body: the statements before each blank line
RECURSIVE BlocksOf(_, _)
BlocksOf(b, cur) ==
  IF b = <<>> THEN (IF cur = <<>> THEN <<>> ELSE <<cur>>)
  ELSE IF Head(b) = <<>> THEN <<cur>> \o BlocksOf(Tail(b), <<>>)
  ELSE BlocksOf(Tail(b), Append(cur, Head(b)))

Blocks == BlocksOf(Body, <<>>)

\* the output is the header line, blocks that each end in a blank line, and
\* the closing line, every line ended by a newline
Framed ==
  /\ Len(solidity_code) > 0 /\ solidity_code[Len(solidity_code)] = "\n"
  /\ Len(OutLines) >= 2
  /\ OutLines[1] = SHAPE_HEADER
  /\ OutLines[Len(OutLines)] = SHAPE_CLOSE
  /\ Body = <<>> \/ Body[Len(Body)] = <<>>

(***************************************************************************)
(* What was written in the trace.                                          *)
(***************************************************************************)
HoldsCall(l) == l.head.tag \in {"call", "qualified", "both"}
HoldsWaitOnly(l) == l.head.tag = "wait"
Recognized(l) == HoldsCall(l) \/ HoldsWaitOnly(l)
Unrecognized(l) == ~Recognized(l)

RecognizedLines == SelectSeq(trace, Recognized)

\* every suffix of the line is absent or well formed
CleanSuffixes(l) ==
  /\ l.from.tag \in {"none", "ok"}
  /\ l.time.tag \in {"none", "ok"}
  /\ l.block.tag \in {"none", "ok"}

Opt(p, Stmt(_)) == IF p.tag = "ok" THEN <<Stmt(p.val)>> ELSE <<>>

\* the line specification SpecLine varies: the one that is not the other
\* call, the first line when both are; and the block it stands for
FocusPos == IF Len(trace) = 2 /\ trace[2] # OtherCall THEN 2 ELSE 1
Focus == trace[FocusPos]
FocusIsLast == FocusPos = Len(trace)
BlockPos == Len(SelectSeq(SubSeq(trace, 1, FocusPos), Recognized))
HasFocusBlock == BlockPos \in 1..Len(Blocks)
FocusBlock == Blocks[BlockPos]
FocusCall == IF FocusIsLast THEN Direct(Focus.head.val) ELSE Guarded(Focus.head.val)

Done == pc = "done"

\* the positions in a sequence of the elements that satisfy Test
Positions(seq, Test(_)) == { k \in 1..Len(seq) : Test(seq[k]) }

AllStatements == SelectSeq(Body, LAMBDA s : s # <<>>)

(***************************************************************************)
(* Properties.                                                             *)
(***************************************************************************)
Last(seq) == seq[Len(seq)]

Suffixes(l) == Opt(l.from, Prank) \o Opt(l.time, Warp) \o Opt(l.block, Roll)

\* C1: when the input holds a call line, the last call line is emitted in
\* the direct form and every earlier call line in the guarded form, also
\* when wait lines or unrecognized lines come after the last call line.
C1_LastCallDirect ==
  Done /\ Positions(trace, HoldsCall) # {} =>
    LET rec == RecognizedLines
        calls == Positions(rec, HoldsCall)
    IN  /\ Framed
        /\ Len(Blocks) = Len(rec)
        /\ \A k \in calls :
             /\ Blocks[k] # <<>>
             /\ Last(Blocks[k]) = IF k = Max(calls) THEN Direct(rec[k].head.val)
                                  ELSE Guarded(rec[k].head.val)

RemoveAt(seq, k) == SubSeq(seq, 1, k - 1) \o SubSeq(seq, k + 1, Len(seq))

\* C2: deleting one line that is blank, whitespace-only or matched by
\* neither pattern, wherever it stands, leaves the output unchanged.
C2_DeletionInvariant ==
  Done =>
    \A k \in 1..Len(trace) :
      Unrecognized(trace[k]) =>
        convert_to_solidity(Render(RemoveAt(trace, k))) = solidity_code

\* C3: a call line with any of the 8 combinations of well-formed suffixes
\* emits prank, warp, roll in this order, each iff its suffix is present,
\* then one call statement (direct when the line is last, guarded otherwise),
\* then the blank line.
C3_CallBlockOrder ==
  Done /\ HoldsCall(Focus) /\ CleanSuffixes(Focus) =>
    /\ Framed
    /\ HasFocusBlock
    /\ FocusBlock = Suffixes(Focus) \o <<FocusCall>>

C3_Witness ==
  /\ Done
  /\ HoldsCall(Focus)
  /\ Focus.from.tag = "ok" /\ Focus.time.tag = "ok" /\ Focus.block.tag = "ok"
  /\ ~FocusIsLast
  /\ Len(FocusBlock) = 4

\* the block a recognized line with well-formed suffixes stands for, its call
\* statement in either form
IsBlockOf(b, l) ==
  IF HoldsCall(l)
  THEN \/ b = Suffixes(l) \o <<Guarded(l.head.val)>>
       \/ b = Suffixes(l) \o <<Direct(l.head.val)>>
  ELSE b = Suffixes(l)

\* the shape of the result
Returned ==
  Done =>
    /\ Framed
    /\ Len(Blocks) = Len(RecognizedLines)
    /\ \A k \in 1..Len(Blocks) : IsBlockOf(Blocks[k], RecognizedLines[k])
    /\ RecognizedLines = <<>> => solidity_code = EMPTY_FUNCTION

\* C4: the function returns for every input (a step can be taken in every
\* state but the final one), and the result is the header line, one block
\* per recognized line in input order, each ended by a blank line, and the
\* closing line; with no recognized line it is exactly
\* "function test_replay() public {\n}\n".
C4_OutputFrame == (~Done => CanStep) /\ Returned

C4_Witness ==
  /\ Done
  /\ Len(trace) = 3
  /\ HoldsWaitOnly(trace[1]) /\ Unrecognized(trace[2]) /\ HoldsCall(trace[3])
  /\ Len(Blocks) = 2

\* C5: a wait line emits warp iff it has a time delay, then roll iff it has
\* a block delay, then the blank line, and never a prank or a call
\* statement, whatever its position.
C5_WaitBlock ==
  Done /\ HoldsWaitOnly(Focus) /\ CleanSuffixes(Focus) /\ Focus.from.tag = "none" =>
    /\ Framed
    /\ HasFocusBlock
    /\ FocusBlock = Opt(Focus.time, Warp) \o Opt(Focus.block, Roll)
    /\ \A k \in 1..Len(FocusBlock) :
         ~IsCallStmt(FocusBlock[k]) /\ ~StartsWith(FocusBlock[k], SHAPE_PRANK)

C5_Witness ==
  /\ Done
  /\ HoldsWaitOnly(Focus)
  /\ Focus.from.tag = "none" /\ Focus.time.tag = "ok" /\ Focus.block.tag = "ok"
  /\ ~FocusIsLast
  /\ Len(FocusBlock) = 2

\* what a line with a malformed suffix emits: the suffixes are read in the
\* order from, time delay, block delay, and reading stops at the first one
\* that is malformed; a wait line reads no from suffix
ReadsTime(l) ==
  IF HoldsCall(l) THEN l.from.tag \in {"none", "ok"} ELSE l.from.tag = "none"
ReadsBlock(l) == ReadsTime(l) /\ l.time.tag \in {"none", "ok"}
ReadBlock(l) ==
  (IF HoldsCall(l) /\ l.from.tag \in {"ok", "long"} THEN <<Prank(l.from.val)>> ELSE <<>>)
    \o (IF ReadsTime(l) /\ l.time.tag = "ok" THEN <<Warp(l.time.val)>> ELSE <<>>)
    \o (IF ReadsBlock(l) /\ l.block.tag \in {"ok", "partial"} THEN <<Roll(l.block.val)>> ELSE <<>>)

\* C6 as claimed: a line that holds a call expression or the wait marker
\* followed by a malformed suffix contributes no output at all.
C6_MalformedDropped ==
  Done /\ Recognized(Focus) /\ ~CleanSuffixes(Focus) => Len(Blocks) = Len(trace) - 1

\* C6 as amended: a line that holds a call expression or the wait marker
\* followed by a malformed suffix is still recognized and emits its block:
\* the statements of the well-formed suffixes written before the malformed
\* one, the call statement (none for a wait line) and the blank line.  The
\* malformed suffix and the suffixes after it emit nothing, except that an
\* address of more than 40 hex digits is emitted cut to its first 40 and a
\* block delay whose digits are followed by other text is emitted as those
\* digits.
C6_MalformedSuffixIgnored ==
  Done /\ Recognized(Focus) /\ ~CleanSuffixes(Focus) =>
    /\ Framed
    /\ Len(Blocks) = Len(trace)
    /\ FocusBlock = ReadBlock(Focus) \o (IF HoldsCall(Focus) THEN <<FocusCall>> ELSE <<>>)

C6_Witness ==
  /\ Done
  /\ HoldsCall(Focus)
  /\ Focus.from.tag = "bad" /\ Focus.time.tag = "ok" /\ Focus.block.tag = "ok"
  /\ FocusBlock = <<Direct(Focus.head.val)>>

\* C7: a time delay written N is emitted as vm.warp(block.timestamp + N);
\* and a block delay written M as vm.roll(block.number + M); with the digit
\* strings as written: leading zeros kept, and 0 emitted as + 0.
C7_DelaysVerbatim ==
  Done /\ Recognized(Focus) /\ CleanSuffixes(Focus)
       /\ (HoldsWaitOnly(Focus) => Focus.from.tag = "none") =>
    /\ Framed
    /\ HasFocusBlock
    /\ SelectSeq(FocusBlock, LAMBDA s : StartsWith(s, SHAPE_WARP)) = Opt(Focus.time, Warp)
    /\ SelectSeq(FocusBlock, LAMBDA s : StartsWith(s, SHAPE_ROLL)) = Opt(Focus.block, Roll)

C7_Witness ==
  /\ Done
  /\ Recognized(Focus)
  /\ Focus.time.tag = "ok" /\ Focus.time.val = <<"0">>
  /\ Focus.block.tag = "ok" /\ Focus.block.val = <<"0", "5">>
  /\ Warp(<<"0">>) = FocusBlock[1]

\* C8: a line is a call line or a wait line, call first: a line holding a
\* call expression emits exactly one call block, and none of the delays of a
\* wait marker on the same line; only a line without a call expression is
\* emitted as a wait block; a line holding neither emits nothing.
C8_CallFirst ==
  Done =>
    /\ Framed
    /\ Len(Blocks) = Len(RecognizedLines)
    /\ HoldsCall(Focus) =>
         /\ SelectSeq(FocusBlock, IsCallStmt) = <<FocusCall>>
         /\ \A k \in 1..Len(FocusBlock) : FocusBlock[k] # Warp(<<"9">>)
    /\ HoldsWaitOnly(Focus) => SelectSeq(FocusBlock, IsCallStmt) = <<>>
    /\ Unrecognized(Focus) => Len(Blocks) = Len(trace) - 1

C8_Witness ==
  /\ Done
  /\ Focus.head.tag = "both"
  /\ Focus.time.tag = "ok"
  /\ ~FocusIsLast
  /\ Len(Blocks) = 2

\* C9: a call line written Qualifier.name(args), whatever the qualifier,
\* emits name(args) in its call statement, in the guarded and in the direct
\* form.
C9_QualifierStripped ==
  Done /\ Focus.head.tag = "qualified" =>
    /\ Framed
    /\ HasFocusBlock
    /\ FocusBlock # <<>>
    /\ Last(FocusBlock) = FocusCall

C9_Witness ==
  /\ Done
  /\ Focus.head.tag = "qualified"
  /\ Focus.head.text[1] = "_"
  /\ ~FocusIsLast
  /\ Last(FocusBlock) = Guarded(Focus.head.val)

\* C10: the output holds at most one direct call statement, and when it
\* holds one it is the last statement of the last block: nothing but the
\* blank line and the closing line follow it.
C10_OneDirectCallAtEnd ==
  Done =>
    LET direct == Positions(AllStatements, IsDirectStmt)
    IN  /\ Cardinality(direct) <= 1
        /\ direct # {} =>
             /\ Framed
             /\ direct = {Len(AllStatements)}
             /\ Last(Blocks) # <<>>

C10_Witness ==
  /\ Done
  /\ Len(Blocks) = 3
  /\ Positions(AllStatements, IsDirectStmt) # {}
  /\ Positions(AllStatements, IsGuardedStmt) # {}

====
